---------------------------- MODULE Spec2Model ----------------------------
(***************************************************************************)
(* A model of the AI task assistant's detection cascade                    *)
(* (src/src/core/screen_detector.py and its detectors), guidance           *)
(* orchestrator (src/src/core/app_manager.py), load sampler                *)
(* (src/src/core/performance_optimizer.py), overlay manager and task step  *)
(* planner (src/src/core/ai_chat.py).                                      *)
(*                                                                         *)
(* Numbers: a confidence is kept in hundredths (0.7 is 70), an overlap     *)
(* ratio as the pair <<numerator, denominator>>, so that every comparison  *)
(* of the source is an exact integer comparison.                           *)
(***************************************************************************)
EXTENDS Integers, Sequences, FiniteSets, TLC

VARIABLES
    screen,     \* what the current screen makes each detector tier produce
    outcome,    \* what detect_screen_elements did with it
    reply,      \* what the generation collaborator answers to a plan request
    plan,       \* what generate_task_steps returned for it
    app         \* the guidance orchestrator and its collaborators

cascadeVars == <<screen, outcome>>

plannerVars == <<reply, plan>>

vars == <<screen, outcome, reply, plan, app>>

---------------------------------------------------------------------------
(* Bounds of the model.                                                    *)

\* The most raw candidates a screen yields over all tiers together.
MaxCandidates == 3

\* The most tokens in a collaborator's plan text.
MaxTextLen == 4

\* The most pending delayed callbacks of one kind.
MaxPending == 2

\* The most sampling threads alive at once.
MaxSamplers == 2

\* The most steps of a plan the orchestrator is given.
MaxSteps == 2

\* The most task_completed emissions counted for one session.
MaxCompleted == 2

\* The most records in one answer of the cloud service on a crowded screen.
MaxCrowd == 12

\* The highest CPU load, in percent, a reading of the sampler holds.
MaxLoad == 100

---------------------------------------------------------------------------
(* Sequence helpers.                                                       *)

\* A slice that cuts nothing.
TakeAll(s, n) == s

\* s[:n]
Take(s, n) == SubSeq(s, 1, IF Len(s) < n THEN Len(s) ELSE n)

Min2(a, b) == IF a < b THEN a ELSE b

Max2(a, b) == IF a > b THEN a ELSE b

---------------------------------------------------------------------------
(* Detection records.  A record of the cloud response is arbitrary JSON,   *)
(* so the presence of each key is part of the record; has_id is set by     *)
(* _process_detections.  tier and sub are not fields of the program: they  *)
(* name the tier and the sub-detector of that tier that produced the       *)
(* record.                                                                 *)

Tiers == <<"cloud", "ui", "yolo", "local">>

Det(tier, sub, label, box, conf, type) ==
    [tier |-> tier, sub |-> sub, has_label |-> TRUE, label |-> label,
     has_box |-> TRUE, box |-> box, box_numeric |-> TRUE,
     has_action |-> TRUE, conf |-> conf, type |-> type,
     has_id |-> FALSE, id |-> 0]

\* Pixel rectangles [x1, y1, x2, y2].  BoxA and BoxB have IoU exactly 1/2,
\* BoxA and BoxC IoU 1/3, BoxD is apart from the others.
BoxA == <<0, 0, 2, 2>>
BoxB == <<0, 0, 2, 1>>
BoxC == <<1, 0, 3, 2>>
BoxD == <<10, 10, 12, 12>>

Boxes == {BoxA, BoxB, BoxC, BoxD}


---------------------------------------------------------------------------
(* Box geometry.  A ratio is <<numerator, denominator>>, denominator > 0.  *)

Intersection(box1, box2) ==
    LET x1_i == Max2(box1[1], box2[1])
        y1_i == Max2(box1[2], box2[2])
        x2_i == Min2(box1[3], box2[3])
        y2_i == Min2(box1[4], box2[4])
    IN  IF x2_i <= x1_i \/ y2_i <= y1_i
        THEN 0
        ELSE (x2_i - x1_i) * (y2_i - y1_i)

Area(box) == (box[3] - box[1]) * (box[4] - box[2])

\* YOLOIconDetector._calculate_iou: intersection over union.
CalculateIou(box1, box2) ==
    LET intersection == Intersection(box1, box2)
        union == Area(box1) + Area(box2) - intersection
    IN  IF intersection = 0 THEN <<0, 1>>
        ELSE IF union > 0 THEN <<intersection, union>> ELSE <<0, 1>>

\* UIElementDetector._calculate_overlap: intersection over the smaller area.
CalculateOverlap(box1, box2) ==
    LET intersection == Intersection(box1, box2)
        smaller_area == Min2(Area(box1), Area(box2))
    IN  IF intersection = 0 THEN <<0, 1>>
        ELSE IF smaller_area > 0 THEN <<intersection, smaller_area>> ELSE <<0, 1>>

\* ratio > num/den and ratio >= num/den, for den > 0.
RatioGT(ratio, num, den) == ratio[1] * den > num * ratio[2]

RatioGE(ratio, num, den) == ratio[1] * den >= num * ratio[2]

---------------------------------------------------------------------------
(* list.sort(key=..., reverse=True): descending and stable, equal keys     *)
(* keep the order they came in.  The argument is a sequence of             *)
(* [k |-> key, v |-> element].                                             *)

RECURSIVE InsertDesc(_, _)
InsertDesc(sorted, p) ==
    IF sorted = <<>> THEN <<p>>
    ELSE IF Head(sorted).k >= p.k
         THEN <<Head(sorted)>> \o InsertDesc(Tail(sorted), p)
         ELSE <<p>> \o sorted

RECURSIVE SortDescFrom(_, _)
SortDescFrom(sorted, rest) ==
    IF rest = <<>> THEN sorted
    ELSE SortDescFrom(InsertDesc(sorted, Head(rest)), Tail(rest))

SortDesc(keyed) ==
    LET sorted == SortDescFrom(<<>>, keyed)
    IN  [i \in 1..Len(sorted) |-> sorted[i].v]

---------------------------------------------------------------------------
(* Tier 2: UIElementDetector (the advanced UI heuristic).                  *)

\* The sub-detectors in the order detect_ui_elements runs them.
UiSubDetectors == <<"buttons", "text_fields", "icons", "links", "window_controls">>

\* type_priority.get(type, 0)
TypePriority(type) ==
    CASE type = "button" -> 5
      [] type = "text_field" -> 4
      [] type = "window_control" -> 3
      [] type = "link" -> 2
      [] type = "icon" -> 1
      [] OTHER -> 0

GetPriority(detection) == TypePriority(detection.type) * detection.conf

OverlapsSignificantly(detection, existing) ==
    \E i \in 1..Len(existing) :
        RatioGT(CalculateOverlap(detection.box, existing[i].box), 3, 10)

RECURSIVE UiRemoveOverlapping(_, _)
UiRemoveOverlapping(filtered, rest) ==
    IF rest = <<>> THEN filtered
    ELSE IF OverlapsSignificantly(Head(rest), filtered)
         THEN UiRemoveOverlapping(filtered, Tail(rest))
         ELSE UiRemoveOverlapping(Append(filtered, Head(rest)), Tail(rest))

FilterAndRank(detections) ==
    IF detections = <<>> THEN <<>>
    ELSE LET keyed == [i \in 1..Len(detections) |->
                          [k |-> GetPriority(detections[i]), v |-> detections[i]]]
         IN  Take(UiRemoveOverlapping(<<>>, SortDesc(keyed)), 8)

\* raw: the candidates of the five sub-detectors, in the order they are
\* appended.  raise_at: 0, or the place (1..5) of the sub-detector that
\* raises; the except clause then returns what was appended before it,
\* not filtered.
RECURSIVE SelectBefore(_, _)
SelectBefore(raw, sub) ==
    IF raw = <<>> THEN <<>>
    ELSE IF Head(raw).sub < sub
         THEN <<Head(raw)>> \o SelectBefore(Tail(raw), sub)
         ELSE SelectBefore(Tail(raw), sub)

DetectUiElements(raw, raise_at) ==
    IF raise_at = 0 THEN FilterAndRank(raw) ELSE SelectBefore(raw, raise_at)

---------------------------------------------------------------------------
(* Tier 3: YOLOIconDetector.                                               *)

OverlapsWithExisting(detection, existing) ==
    \E i \in 1..Len(existing) :
        RatioGT(CalculateIou(detection.box, existing[i].box), 1, 2)

RECURSIVE YoloRemoveOverlapping(_, _)
YoloRemoveOverlapping(filtered, rest) ==
    IF rest = <<>> THEN filtered
    ELSE IF OverlapsWithExisting(Head(rest), filtered)
         THEN YoloRemoveOverlapping(filtered, Tail(rest))
         ELSE YoloRemoveOverlapping(Append(filtered, Head(rest)), Tail(rest))

FilterDetections(detections) ==
    IF detections = <<>> THEN <<>>
    ELSE LET keyed == [i \in 1..Len(detections) |->
                          [k |-> detections[i].conf, v |-> detections[i]]]
         IN  Take(YoloRemoveOverlapping(<<>>, SortDesc(keyed)), 10)

\* raw: what _yolo_detect, _template_match and _color_based_detect append.
DetectIcons(raw) == FilterDetections(raw)

---------------------------------------------------------------------------
(* Tier 4: LocalUIDetector.  Each sub-detector truncates its own list.     *)

RECURSIVE SelectSub(_, _)
SelectSub(raw, sub) ==
    IF raw = <<>> THEN <<>>
    ELSE IF Head(raw).sub = sub
         THEN <<Head(raw)>> \o SelectSub(Tail(raw), sub)
         ELSE SelectSub(Tail(raw), sub)

LocalDetectUiElements(raw) ==
    Take(SelectSub(raw, 1), 5) \o Take(SelectSub(raw, 2), 3) \o Take(SelectSub(raw, 3), 3)

\* ScreenDetector._detect_locally
DetectLocally(raw) == LocalDetectUiElements(raw)

---------------------------------------------------------------------------
(* Tier 1: the cloud service.  A response is [status, body, detections]:   *)
(* body says what the "detections" key of the JSON holds.                  *)

EmptyList == [kind |-> "list", items |-> <<>>]

ListOf(items) == [kind |-> "list", items |-> items]

DetectWithCloud(response) ==
    IF response.status = "ok"
    THEN CASE response.body = "list" -> ListOf(response.detections)
           [] response.body = "absent" -> EmptyList
           [] response.body = "null" -> [kind |-> "none", items |-> <<>>]
           [] OTHER -> [kind |-> "dict", items |-> <<>>]
    ELSE EmptyList

\* Python's "not detections" for a list, None or a non-empty dict.
Falsy(detections) ==
    \/ detections.kind = "none"
    \/ detections.kind = "list" /\ detections.items = <<>>

---------------------------------------------------------------------------
(* ScreenDetector._process_detections and detect_screen_elements.          *)

MaxDetections == 10

DetectionConfidence == 50

ValidBox(detection) == Len(detection.box) >= 4 /\ detection.box_numeric

RECURSIVE ProcessFrom(_, _)
ProcessFrom(detections, i) ==
    IF i > Len(detections) THEN <<>>
    ELSE LET detection == detections[i]
             with_id == [detection EXCEPT !.has_id = TRUE, !.id = i - 1,
                                          !.has_action = TRUE]
         IN  IF ~detection.has_box \/ ~detection.has_label
             THEN ProcessFrom(detections, i + 1)
             ELSE IF ValidBox(detection)
                  THEN <<with_id>> \o ProcessFrom(detections, i + 1)
                  ELSE ProcessFrom(detections, i + 1)

\* _process_detections with the id made from the record's label instead
\* of its index.
ProcessDetectionsIdByLabel(detections) ==
    LET processed == ProcessFrom(Take(detections, MaxDetections), 1)
    IN  [k \in 1..Len(processed) |->
            [processed[k] EXCEPT !.id = IF processed[k].label = "Button" THEN 0
                                        ELSE 1]]

\* _process_detections without the slice to max_detections.
ProcessDetectionsUncut(detections) == ProcessFrom(detections, 1)

ProcessDetections(detections) == ProcessFrom(Take(detections, MaxDetections), 1)

Failed(invoked) ==
    [signal |-> "detection_failed", result |-> <<>>, invoked |-> invoked]

\* detect_screen_elements raising when the last tier too returns nothing.
DetectScreenElementsRaising(s) ==
    IF ~s.capture THEN Failed(<<>>)
    ELSE
    LET d1 == DetectWithCloud(s.cloud)
        i1 == <<"cloud">>
        d2 == IF Falsy(d1) THEN ListOf(DetectUiElements(s.ui, s.ui_raise)) ELSE d1
        i2 == IF Falsy(d1) THEN Append(i1, "ui") ELSE i1
        d3 == IF Falsy(d2) THEN ListOf(d2.items \o DetectIcons(s.yolo)) ELSE d2
        i3 == IF Falsy(d2) THEN Append(i2, "yolo") ELSE i2
        d4 == IF Falsy(d3) THEN ListOf(DetectLocally(s.local)) ELSE d3
        i4 == IF Falsy(d3) THEN Append(i3, "local") ELSE i3
    IN  IF d4.kind # "list" \/ Falsy(d4) THEN Failed(i4)
        ELSE [signal |-> "detections_ready",
              result |-> ProcessDetections(d4.items),
              invoked |-> i4]

\* detect_screen_elements with the YOLO tier run and appended whatever
\* the earlier tiers returned (the "if not detections" guard dropped).
DetectScreenElementsMerging(s) ==
    IF ~s.capture THEN Failed(<<>>)
    ELSE
    LET d1 == DetectWithCloud(s.cloud)
        i1 == <<"cloud">>
        d2 == IF Falsy(d1) THEN ListOf(DetectUiElements(s.ui, s.ui_raise)) ELSE d1
        i2 == IF Falsy(d1) THEN Append(i1, "ui") ELSE i1
        d3 == IF d2.kind = "list" THEN ListOf(d2.items \o DetectIcons(s.yolo)) ELSE d2
        i3 == IF d2.kind = "list" THEN Append(i2, "yolo") ELSE i2
        d4 == IF Falsy(d3) THEN ListOf(DetectLocally(s.local)) ELSE d3
        i4 == IF Falsy(d3) THEN Append(i3, "local") ELSE i3
    IN  IF d4.kind # "list" THEN Failed(i4)
        ELSE [signal |-> "detections_ready",
              result |-> ProcessDetections(d4.items),
              invoked |-> i4]

\* s: the screen.  The result names the signal emitted, the list returned
\* and the tiers that were invoked, in order.
DetectScreenElements(s) ==
    IF ~s.capture THEN Failed(<<>>)
    ELSE
    LET d1 == DetectWithCloud(s.cloud)
        i1 == <<"cloud">>
        d2 == IF Falsy(d1) THEN ListOf(DetectUiElements(s.ui, s.ui_raise)) ELSE d1
        i2 == IF Falsy(d1) THEN Append(i1, "ui") ELSE i1
        d3 == IF Falsy(d2) THEN ListOf(d2.items \o DetectIcons(s.yolo)) ELSE d2
        i3 == IF Falsy(d2) THEN Append(i2, "yolo") ELSE i2
        d4 == IF Falsy(d3) THEN ListOf(DetectLocally(s.local)) ELSE d3
        i4 == IF Falsy(d3) THEN Append(i3, "local") ELSE i3
    IN  IF d4.kind # "list" THEN Failed(i4)
        ELSE [signal |-> "detections_ready",
              result |-> ProcessDetections(d4.items),
              invoked |-> i4]


---------------------------------------------------------------------------
(* The screens of the model: what each tier finds on the screen.           *)

\* What the cloud service may answer: well-formed records, a record with
\* no action, and records that lack a key or carry a bad box (too short,
\* not numbers, or numbers with x2 < x1 and y2 < y1).
CloudGood == {Det("cloud", 1, "Button", b, 90, "none") : b \in {BoxA, BoxB, BoxD}}

CloudNoAction ==
    [Det("cloud", 1, "Text: ok", BoxC, 40, "none") EXCEPT !.has_action = FALSE]

CloudMalformed ==
    { [Det("cloud", 1, "Button", BoxA, 90, "none") EXCEPT !.has_box = FALSE, !.box = <<>>],
      [Det("cloud", 1, "Button", BoxA, 90, "none") EXCEPT !.has_label = FALSE],
      [Det("cloud", 1, "Button", BoxA, 90, "none") EXCEPT !.box = <<0, 0, 2>>],
      [Det("cloud", 1, "Button", BoxA, 90, "none") EXCEPT !.box_numeric = FALSE],
      Det("cloud", 1, "Button", <<2, 2, 0, 0>>, 90, "none") }

CloudPool == CloudGood \cup {CloudNoAction} \cup CloudMalformed

\* The candidates of UIElementDetector's five sub-detectors.
UiPool ==
    UNION { { Det("ui", 1, "button", b, 70, "button"),
              Det("ui", 2, "text_field", b, 60, "input"),
              Det("ui", 3, "icon", b, 50, "icon"),
              Det("ui", 4, "link", b, 60, "link"),
              Det("ui", 5, "close_button", b, 80, "window_control") }
            : b \in {BoxA, BoxB, BoxC} }

\* The candidates of YOLOIconDetector: the model's boxes, then the
\* colour-based window controls, address bars and buttons.
YoloPool ==
    UNION { { Det("yolo", 1, "laptop_icon", b, 90, "yolo_detection"),
              Det("yolo", 1, "mouse_icon", b, 30, "yolo_detection"),
              Det("yolo", 2, "close_button", b, 80, "window_control"),
              Det("yolo", 3, "address_bar", b, 60, "browser_element"),
              Det("yolo", 4, "button", b, 50, "ui_element") }
            : b \in {BoxA, BoxB, BoxC} }

\* The candidates of LocalUIDetector's three sub-detectors.
LocalPool ==
    UNION { { Det("local", 1, "Button", b, 60, "none"),
              Det("local", 2, "Text Input", b, 50, "none"),
              Det("local", 3, "Clickable Element", b, 40, "none") }
            : b \in {BoxA, BoxB, BoxC} }

\* The sequences of n candidates in the order the sub-detectors append them.
InOrder(pool, n) ==
    { q \in [1..n -> pool] : \A i \in 1..(n - 1) : q[i].sub <= q[i + 1].sub }

CloudOk(detections) == [status |-> "ok", body |-> "list", detections |-> detections]

CloudFaults ==
    { [status |-> "timeout", body |-> "list", detections |-> <<>>],
      [status |-> "connection_error", body |-> "list", detections |-> <<>>],
      [status |-> "http_error", body |-> "list", detections |-> <<>>],
      [status |-> "ok", body |-> "absent", detections |-> <<>>],
      [status |-> "ok", body |-> "null", detections |-> <<>>],
      [status |-> "ok", body |-> "object", detections |-> <<>>] }

NoCapture ==
    [capture |-> FALSE, cloud |-> CloudOk(<<>>), ui |-> <<>>, ui_raise |-> 0,
     yolo |-> <<>>, local |-> <<>>]

\* s is a screen with at most max candidates over the four tiers.
IsScreen(s, max) ==
    \E nc \in 0..max : \E nu \in 0..(max - nc) : \E ny \in 0..(max - nc - nu) :
    \E nl \in 0..(max - nc - nu - ny) :
    \E c \in [1..nc -> CloudPool] : \E u \in InOrder(UiPool, nu) :
    \E y \in InOrder(YoloPool, ny) : \E l \in InOrder(LocalPool, nl) :
        s = [capture |-> TRUE, cloud |-> CloudOk(c), ui |-> u, ui_raise |-> 0,
             yolo |-> y, local |-> l]

\* s is a screen on which one tier fails: the cloud call, or a
\* sub-detector of the advanced UI detector.
IsFaultScreen(s, max) ==
    \E nu \in 0..max : \E ny \in 0..(max - nu) : \E nl \in 0..(max - nu - ny) :
    \E u \in InOrder(UiPool, nu) :
    \E y \in InOrder(YoloPool, ny) : \E l \in InOrder(LocalPool, nl) :
        \/ \E f \in CloudFaults :
               s = [capture |-> TRUE, cloud |-> f, ui |-> u, ui_raise |-> 0,
                    yolo |-> y, local |-> l]
        \/ \E r \in 1..Len(UiSubDetectors) :
               s = [capture |-> TRUE, cloud |-> CloudOk(<<>>), ui |-> u, ui_raise |-> r,
                    yolo |-> y, local |-> l]

NoOutcome == [signal |-> "none", result |-> <<>>, invoked |-> <<>>]

---------------------------------------------------------------------------
(* The task step planner: AIChatManager.generate_task_steps.               *)
(*                                                                         *)
(* A plan text is a sequence of tokens, blanks between them:               *)
(*   "["  "]"  ","   the JSON punctuation                                  *)
(*   "obj"    a flat JSON object {"step_number": 1, "action": ...}         *)
(*   "objx"   such an object holding an invalid escape such as \d          *)
(*   "str"    a JSON string literal "Done"                                 *)
(*   "nl"     a newline                                                    *)
(*   "fence"  ```          "fencej"  ```json                               *)
(*   "verb"   words with an action verb: Click the Chrome icon             *)
(*   "prose"  words without one, more than 10 characters                   *)
(*   "word"   a word without one, at most 10 characters                    *)

Tokens == {"[", "]", ",", "obj", "objx", "str", "nl", "fence", "fencej",
           "verb", "prose", "word"}

\* json.loads on tokens: whitespace is skipped; a value is an object, a
\* string or an array of values.  repaired: the invalid escapes were
\* doubled first (re.sub), which makes "objx" a valid object.
RECURSIVE SkipWs(_, _)
SkipWs(t, i) == IF i <= Len(t) /\ t[i] = "nl" THEN SkipWs(t, i + 1) ELSE i

Bad == [ok |-> FALSE, next |-> 0, kind |-> "invalid", elems |-> <<>>]

JsonStep == [kind |-> "step", src |-> "json", step_number |-> 0, extra |-> 0]

JsonOther(kind) == [kind |-> kind, src |-> "json", step_number |-> 0, extra |-> 0]

RECURSIVE ParseValue(_, _, _)
RECURSIVE ParseElems(_, _, _, _)
\* The value that starts at token i: [ok, next, kind, elems], next the
\* place after it.
ParseValue(t, i0, repaired) ==
    LET i == SkipWs(t, i0)
    IN  IF i > Len(t) THEN Bad
        ELSE IF t[i] = "obj" \/ (t[i] = "objx" /\ repaired)
             THEN [ok |-> TRUE, next |-> i + 1, kind |-> "dict", elems |-> <<>>]
        ELSE IF t[i] = "str"
             THEN [ok |-> TRUE, next |-> i + 1, kind |-> "str", elems |-> <<>>]
        ELSE IF t[i] = "["
             THEN LET j == SkipWs(t, i + 1)
                  IN  IF j <= Len(t) /\ t[j] = "]"
                      THEN [ok |-> TRUE, next |-> j + 1, kind |-> "list", elems |-> <<>>]
                      ELSE ParseElems(t, i + 1, repaired, <<>>)
        ELSE Bad

\* The elements of an array from token i on, up to its "]".
ParseElems(t, i, repaired, acc) ==
    LET v == ParseValue(t, i, repaired)
    IN  IF ~v.ok THEN Bad
        ELSE LET e == IF v.kind = "dict" THEN JsonStep ELSE JsonOther(v.kind)
                 j == SkipWs(t, v.next)
             IN  IF j > Len(t) THEN Bad
                 ELSE IF t[j] = "]"
                      THEN [ok |-> TRUE, next |-> j + 1, kind |-> "list",
                            elems |-> Append(acc, e)]
                 ELSE IF t[j] = ","
                      THEN ParseElems(t, j + 1, repaired, Append(acc, e))
                 ELSE Bad

\* json.loads(text): the whole text must be one value.
JsonLoads(t, repaired) ==
    LET v == ParseValue(t, 1, repaired)
    IN  IF v.ok /\ SkipWs(t, v.next) > Len(t) THEN v ELSE Bad

IsObject(tok) == tok \in {"obj", "objx"}

\* re.search(r'\[\s*\{.*?\}\s*\]', text, re.DOTALL): the leftmost "[" that
\* an object follows, up to the first "]" that follows an object.
\* <<first, last>> of the match, <<0, 0>> if there is none.
Pattern1(t) ==
    LET Ends(i) == { e \in (i + 2)..Len(t) :
                       /\ t[e] = "]"
                       /\ IsObject(t[SkipWs(t, i + 1)])
                       /\ \E k \in SkipWs(t, i + 1)..(e - 1) :
                              IsObject(t[k]) /\ SkipWs(t, k + 1) = e }
        Starts == { i \in 1..Len(t) :
                      /\ t[i] = "["
                      /\ SkipWs(t, i + 1) <= Len(t)
                      /\ Ends(i) # {} }
    IN  IF Starts = {} THEN <<0, 0>>
        ELSE LET i == CHOOSE x \in Starts : \A y \in Starts : x <= y
                 e == CHOOSE x \in Ends(i) : \A y \in Ends(i) : x <= y
             IN  <<i, e>>

\* re.search(r'```json\s*(\[.*?\])\s*```', ...) for opener "fencej" and
\* re.search(r'```\s*(\[.*?\])\s*```', ...) for opener "fence": group 1,
\* from the "[" after the opening fence to the first "]" a fence follows.
FencedPattern(t, opener) ==
    LET Open(i) == SkipWs(t, i + 1)
        Ends(i) == { e \in (Open(i) + 1)..Len(t) :
                       /\ t[e] = "]"
                       /\ SkipWs(t, e + 1) <= Len(t)
                       /\ t[SkipWs(t, e + 1)] \in {"fence", "fencej"} }
        Starts == { i \in 1..Len(t) :
                      /\ t[i] = opener
                      /\ Open(i) <= Len(t)
                      /\ t[Open(i)] = "["
                      /\ Ends(i) # {} }
    IN  IF Starts = {} THEN <<0, 0>>
        ELSE LET i == CHOOSE x \in Starts : \A y \in Starts : x <= y
                 e == CHOOSE x \in Ends(i) : \A y \in Ends(i) : x <= y
             IN  <<Open(i), e>>

\* The loop over json_patterns: the first pattern that matches.
ExtractJson(t) ==
    IF Pattern1(t) # <<0, 0>> THEN Pattern1(t)
    ELSE IF FencedPattern(t, "fencej") # <<0, 0>> THEN FencedPattern(t, "fencej")
    ELSE FencedPattern(t, "fence")

\* The characters of a token, for len(line) > 10.
TokLen(tok) ==
    CASE tok \in {"[", "]", ","} -> 1
      [] tok = "fence" -> 3
      [] tok = "fencej" -> 7
      [] tok = "word" -> 4
      [] tok = "str" -> 6
      [] tok = "verb" -> 21
      [] tok = "prose" -> 17
      [] tok \in {"obj", "objx"} -> 40
      [] OTHER -> 0

\* The tokens contain one of 'step', 'click', 'open', 'type', 'navigate';
\* the objects carry a "step_number" key.
HasIndicator(tok) == tok \in {"verb", "obj", "objx"}

RECURSIVE SplitLines(_, _, _)
\* text.split('\n'): the lines of a text, each a sequence of tokens.
SplitLines(t, i, cur) ==
    IF i > Len(t) THEN <<cur>>
    ELSE IF t[i] = "nl" THEN <<cur>> \o SplitLines(t, i + 1, <<>>)
    ELSE SplitLines(t, i + 1, Append(cur, t[i]))

RECURSIVE LineLen(_)
LineLen(line) ==
    IF line = <<>> THEN 0
    ELSE TokLen(Head(line)) + (IF Len(line) > 1 THEN 1 ELSE 0) + LineLen(Tail(line))

TextStep(n) == [kind |-> "step", src |-> "text", step_number |-> n, extra |-> 0]

DefaultStep == [kind |-> "step", src |-> "default", step_number |-> 1, extra |-> 0]

NoStep == [kind |-> "none", src |-> "text", step_number |-> 0, extra |-> 0]

RECURSIVE ParseLines(_, _, _, _)
\* The loop of _parse_steps_from_text over the lines, then the last step.
ParseLines(lines, steps, current_step, step_number) ==
    IF lines = <<>>
    THEN IF current_step # NoStep THEN Append(steps, current_step) ELSE steps
    ELSE LET line == Head(lines)
         IN  IF line = <<>>
             THEN ParseLines(Tail(lines), steps, current_step, step_number)
             ELSE IF \E k \in 1..Len(line) : HasIndicator(line[k])
             THEN ParseLines(Tail(lines),
                             IF current_step # NoStep
                             THEN Append(steps, current_step) ELSE steps,
                             TextStep(step_number), step_number + 1)
             ELSE IF current_step # NoStep /\ LineLen(line) > 10
             THEN ParseLines(Tail(lines), steps,
                             [current_step EXCEPT !.extra = @ + 1], step_number)
             ELSE ParseLines(Tail(lines), steps, current_step, step_number)

\* _parse_steps_from_text with step_number starting at 0.
ParseStepsFromTextFromZero(t) ==
    LET steps == ParseLines(SplitLines(t, 1, <<>>), <<>>, NoStep, 0)
    IN  IF steps = <<>> THEN <<DefaultStep>> ELSE steps

\* _parse_steps_from_text without the default step for an empty list.
ParseStepsFromTextNoDefault(t) ==
    ParseLines(SplitLines(t, 1, <<>>), <<>>, NoStep, 1)

\* _parse_steps_from_text: the steps of the lines, or the one default step.
ParseStepsFromText(t) ==
    LET steps == ParseLines(SplitLines(t, 1, <<>>), <<>>, NoStep, 1)
    IN  IF steps = <<>> THEN <<DefaultStep>> ELSE steps

Returned(kind, steps) == [kind |-> kind, steps |-> steps]

SubText(t, a, b) == [k \in 1..(b - a + 1) |-> t[a + k - 1]]

\* The inner try of generate_task_steps on the plan text.
ParsePlanText(t) ==
    LET m == ExtractJson(t)
        extracted == IF m = <<0, 0>> THEN Bad
                     ELSE JsonLoads(SubText(t, m[1], m[2]), TRUE)
        whole == JsonLoads(t, FALSE)
    IN  IF m # <<0, 0>> /\ ~extracted.ok
        THEN Returned("list", ParseStepsFromText(t))
        ELSE IF m # <<0, 0>> /\ extracted.kind = "list" /\ Len(extracted.elems) > 0
        THEN Returned("list", extracted.elems)
        ELSE IF whole.ok
        THEN Returned(whole.kind, whole.elems)
        ELSE Returned("list", ParseStepsFromText(t))

\* generate_task_steps(task_description) for a collaborator reply
\* [call, content, text]: call "raises" covers a missing client and every
\* failure of the request; content "none" is a reply whose content is None:
\* strip() raises in the inner try, plan_text[:500] raises in its handler,
\* and the outer handler returns [].
GenerateTaskSteps(r) ==
    IF r.call = "raises" THEN Returned("list", <<>>)
    ELSE IF r.content = "none" THEN Returned("list", <<>>)
    ELSE ParsePlanText(r.text)

RECURSIVE TextsOfLen(_)
TextsOfLen(n) ==
    IF n = 0 THEN {<<>>}
    ELSE { Append(t, tok) : t \in TextsOfLen(n - 1), tok \in Tokens }

Texts == UNION { TextsOfLen(n) : n \in 0..MaxTextLen }

CallRaises == [call |-> "raises", content |-> "none", text |-> <<>>]

NoPlan == [kind |-> "pending", steps |-> <<>>]

ContentNone == [call |-> "returns", content |-> "none", text |-> <<>>]

TextReply(t) == [call |-> "returns", content |-> "text", text |-> t]

Replies == {CallRaises, ContentNone} \cup { TextReply(t) : t \in Texts }

---------------------------------------------------------------------------
(* What the orchestrator's surroundings offer it: screens, answers of the  *)
(* chat collaborator, plans, load readings.                                *)

EmptyScreen == [NoCapture EXCEPT !.capture = TRUE]

OneScreen ==
    [EmptyScreen EXCEPT !.local = <<Det("local", 1, "Button", BoxA, 60, "none")>>]

TwoScreen ==
    [EmptyScreen EXCEPT !.local = <<Det("local", 1, "Button", BoxA, 60, "none"),
                                    Det("local", 1, "Button", BoxD, 60, "none")>>]

CycleScreens == {NoCapture, EmptyScreen, OneScreen, TwoScreen}

\* A screen on which the cloud service answers n well-formed records whose
\* boxes are apart from one another.
CrowdedScreen(n) ==
    [EmptyScreen EXCEPT !.cloud =
        CloudOk([k \in 1..n |->
                    Det("cloud", 1, "Button", <<10 * k, 0, 10 * k + 2, 2>>,
                        90, "none")])]

\* One record more than _handle_detections keeps, and as many as the
\* bound allows.
CrowdedScreens == {CrowdedScreen(6), CrowdedScreen(MaxCrowd)}

\* detect_screen_elements on each of them.
Detected == [s \in CycleScreens \cup CrowdedScreens |-> DetectScreenElements(s)]

RECURSIVE PlanText(_)
\* The text of a JSON array of n step objects.
PlanText(n) ==
    IF n = 1 THEN <<"[", "obj", "]">>
    ELSE SubSeq(PlanText(n - 1), 1, 2 * n - 2) \o <<",", "obj", "]">>

\* The replies that make plans of 0 to MaxSteps steps.
PlanReplies == {CallRaises} \cup { TextReply(PlanText(n)) : n \in 1..MaxSteps }

\* generate_task_steps on each of them.
PlannedSteps == { GenerateTaskSteps(r) : r \in PlanReplies }

AiResponses == {"fails", "empty", "plain", "ready"}

\* CPU load readings in whole percent, and the reading that lacks the key.
Loads == 0..MaxLoad

NoReading == [has_cpu |-> FALSE, system_cpu |-> 0]

ResourceUsages ==
    { [has_cpu |-> TRUE, system_cpu |-> c] : c \in Loads } \cup {NoReading}

---------------------------------------------------------------------------
(* The guidance orchestrator: AppManager with its detection timer, the     *)
(* delayed callbacks of QTimer.singleShot, PerformanceOptimizer,           *)
(* OverlayManager and the chat state of AIChatManager.  The whole is one   *)
(* record, so that a handler is an operator from record to record and a    *)
(* handler that calls another is their composition.                        *)
(*                                                                         *)
(* Fields that are not fields of the program: calls lists in order the     *)
(* calls the handler that ran last made, cycle describes the detection     *)
(* cycle it ran (what started it, whether the cascade ran and outlasted    *)
(* the watchdog, the signal the cascade emitted, whether the screen was    *)
(* captured, the ids of its detections, what the chat collaborator made   *)
(* of its guidance request: "none" when none was sent); stale_detect       *)
(* counts the pending retries that were                                    *)
(* scheduled before the latest stop_guidance; started tells that           *)
(* start_guidance has run, completed counts the task_completed emissions   *)
(* since it last ran.                                                      *)

NoCycle ==
    [trigger |-> "none", cascade |-> FALSE, overran |-> FALSE,
     signal |-> "none", captured |-> FALSE, ids |-> {}, chat |-> "none"]

NoSteps == [kind |-> "list", steps |-> <<>>]

InitApp ==
    [current_task |-> "", is_guidance_active |-> FALSE, is_paused |-> FALSE,
     timer_active |-> FALSE, timer_interval |-> 0,
     pending_detect |-> 0, pending_start |-> 0, pending_resume |-> 0,
     optimization_active |-> FALSE, detection_interval |-> 4000,
     samplers |-> 0, monitoring_active |-> FALSE,
     active_overlays |-> {}, instruction |-> "none",
     history_started |-> FALSE, chat_task |-> "", task_steps |-> NoSteps,
     current_step_index |-> 0, task_ready_emitted |-> FALSE,
     is_floating_mode |-> FALSE,
     calls |-> <<>>, cycle |-> NoCycle,
     stale_detect |-> 0, started |-> FALSE, completed |-> 0]

\* A handler starts to run.
Begin(a) == [a EXCEPT !.calls = <<>>, !.cycle = NoCycle]

Call(a, name) == [a EXCEPT !.calls = Append(@, name)]

\* ---- OverlayManager ----

HideAllOverlays(a) ==
    [Call(a, "hide_all_overlays") EXCEPT !.active_overlays = {},
                                          !.instruction = "none"]

ShowInstructionPanel(a, instruction) ==
    [Call(a, "_show_instruction_panel") EXCEPT !.instruction = instruction]

\* show_overlays without hide_all_overlays: the overlays on display stay.
ShowOverlaysKeeping(a, detections, guidance) ==
    LET priority_elements == Take(detections, 5)
    IN  [ShowInstructionPanel(Call(a, "show_overlays"), guidance) EXCEPT
            !.active_overlays =
                @ \cup { priority_elements[k].id : k \in 1..Len(priority_elements) }]

\* show_overlays with a string as guidance: the first five detections.
ShowOverlays(a, detections, guidance) ==
    LET cleared == HideAllOverlays(Call(a, "show_overlays"))
        priority_elements == Take(detections, 5)
    IN  [ShowInstructionPanel(cleared, guidance) EXCEPT
            !.active_overlays =
                { priority_elements[k].id : k \in 1..Len(priority_elements) }]

HideOverlay(a, element_id) ==
    [a EXCEPT !.active_overlays = @ \ {element_id}]

\* ---- PerformanceOptimizer ----

\* resource_usage.get('system_cpu', 50)
SystemCpu(resource_usage) ==
    IF resource_usage.has_cpu THEN resource_usage.system_cpu ELSE 50

\* _adjust_detection_interval with a 2 s interval under a light load and
\* no floor.
AdjustDetectionIntervalFast(cpu_usage) ==
    IF cpu_usage > 70 THEN 8000
    ELSE IF cpu_usage > 50 THEN 6000
    ELSE 2000

\* _adjust_detection_interval with each threshold belonging to the longer
\* interval (>= where the code has >).
AdjustDetectionIntervalInclusive(cpu_usage) ==
    LET interval == IF cpu_usage >= 70 THEN 8000
                    ELSE IF cpu_usage >= 50 THEN 6000
                    ELSE 4000
    IN  IF interval < 4000 THEN 4000 ELSE interval

AdjustDetectionInterval(cpu_usage) ==
    LET interval == IF cpu_usage > 70 THEN 8000
                    ELSE IF cpu_usage > 50 THEN 6000
                    ELSE 4000
    IN  IF interval < 4000 THEN 4000 ELSE interval

\* One pass of the loop of _monitor_resources in a sampling thread.  The
\* only field another thread reads is detection_interval, written once.
MonitorResources(a, resource_usage) ==
    [a EXCEPT !.detection_interval =
                  AdjustDetectionInterval(SystemCpu(resource_usage))]

StartOptimization(a) ==
    IF ~a.optimization_active
    THEN [a EXCEPT !.optimization_active = TRUE, !.samplers = @ + 1]
    ELSE a

\* join(timeout=1.0) returns whether or not the thread has ended: the
\* thread ends when it next reads the flag (SamplerExit).
StopOptimization(a) == [a EXCEPT !.optimization_active = FALSE]

\* ---- AIChatManager ----

\* len(self.task_steps): of a list, of a dict of the five keys of a step,
\* of the string 'Done'.
StepsLen(task_steps) ==
    CASE task_steps.kind = "list" -> Len(task_steps.steps)
      [] task_steps.kind = "dict" -> 5
      [] OTHER -> 4

\* task_steps[i] can be read and has .get: it is a dict of a list.
IsStepAt(task_steps, i) ==
    /\ task_steps.kind = "list"
    /\ i + 1 \in 1..Len(task_steps.steps)
    /\ task_steps.steps[i + 1].kind = "step"

OnTaskReady(a, task_description) == [a EXCEPT !.current_task = task_description]

\* _check_task_readiness; ready_steps is what its call of
\* generate_task_steps returns.
CheckTaskReadiness(a, ai_response, ready_steps) ==
    IF ~a.task_ready_emitted /\ ai_response = "ready"
    THEN OnTaskReady([a EXCEPT !.chat_task = "User task",
                               !.task_steps = ready_steps,
                               !.current_step_index = 0,
                               !.task_ready_emitted = TRUE],
                     "User task")
    ELSE a

\* send_message: [app, text].  ai_response is "fails" when the request
\* raises, else what the answer is: "ready" holds a ready phrase, "plain"
\* holds none, "empty" is the empty string.
SendMessage(a, ai_response, ready_steps) ==
    LET sent == [Call(a, "send_message") EXCEPT !.history_started = TRUE]
    IN  IF ai_response = "fails"
        THEN [app |-> sent, text |-> "error"]
        ELSE [app |-> CheckTaskReadiness(sent, ai_response, ready_steps),
              text |-> ai_response]

GetCurrentStepGuidanceWithDetections(a, ai_response, first_steps, ready_steps) ==
    LET planned == IF StepsLen(a.task_steps) = 0 /\ a.chat_task # ""
                   THEN [a EXCEPT !.task_steps = first_steps]
                   ELSE a
        n == StepsLen(planned.task_steps)
        i == planned.current_step_index
    IN  IF n > 0 /\ 0 <= i /\ i < n /\ ~IsStepAt(planned.task_steps, i)
        THEN [app |-> planned, text |-> "fallback"]
        ELSE SendMessage(planned, ai_response, ready_steps)

\* handle_user_action with the index moved whatever its value (the test
\* of current_step_index against len(task_steps) - 1 dropped).
HandleUserActionUnguarded(a) ==
    LET noted == [a EXCEPT !.history_started = TRUE]
    IN  IF StepsLen(a.task_steps) > 0
        THEN [noted EXCEPT !.current_step_index = @ + 1]
        ELSE Call(noted, "dynamic_guidance")

HandleUserAction(a) ==
    LET noted == [a EXCEPT !.history_started = TRUE]
    IN  IF StepsLen(a.task_steps) > 0
           /\ a.current_step_index < StepsLen(a.task_steps) - 1
        THEN [noted EXCEPT !.current_step_index = @ + 1]
        ELSE Call(noted, "dynamic_guidance")

SwitchToGuidanceMode(a) ==
    LET appended == [a EXCEPT !.history_started = TRUE]
    IN  IF StepsLen(a.task_steps) > 0
        THEN CASE IsStepAt(a.task_steps, 0) ->
                      [appended EXCEPT !.current_step_index = 0,
                                       !.is_floating_mode = TRUE]
               [] a.task_steps.kind = "dict" -> appended
               [] OTHER -> [appended EXCEPT !.current_step_index = 0]
        ELSE [appended EXCEPT !.is_floating_mode = TRUE]

SwitchToFloatingMode(a) == [a EXCEPT !.is_floating_mode = TRUE]

\* switch_to_normal_mode: [app, raised]; conversation_history[0] raises
\* on the empty history.
SwitchToNormalMode(a) ==
    [app |-> [a EXCEPT !.is_floating_mode = FALSE],
     raised |-> ~a.history_started]

\* ---- AppManager ----

StartTimer(a) ==
    [a EXCEPT !.timer_active = TRUE, !.timer_interval = a.detection_interval]

StartGuidance(a, task_description) ==
    LET flagged == [a EXCEPT !.current_task = task_description,
                             !.is_guidance_active = TRUE,
                             !.is_paused = FALSE,
                             !.started = TRUE,
                             !.completed = 0]
        sampled == [StartOptimization(flagged) EXCEPT !.monitoring_active = TRUE]
        chat == SwitchToFloatingMode(SwitchToGuidanceMode(StartTimer(sampled)))
    IN  Call(chat, "task_started")

\* pause_guidance without its call of hide_all_overlays.
PauseGuidanceKeepingOverlays(a) ==
    IF a.is_guidance_active /\ ~a.is_paused
    THEN Call([a EXCEPT !.is_paused = TRUE, !.timer_active = FALSE],
              "guidance_paused")
    ELSE a

PauseGuidance(a) ==
    IF a.is_guidance_active /\ ~a.is_paused
    THEN Call(HideAllOverlays([a EXCEPT !.is_paused = TRUE,
                                        !.timer_active = FALSE]),
              "guidance_paused")
    ELSE a

\* resume_guidance with the timer started again at the interval it had,
\* the optimizer not read.
ResumeGuidanceOldInterval(a) ==
    IF a.is_guidance_active /\ a.is_paused
    THEN Call([a EXCEPT !.is_paused = FALSE, !.timer_active = TRUE],
              "guidance_resumed")
    ELSE a

ResumeGuidance(a) ==
    IF a.is_guidance_active /\ a.is_paused
    THEN Call(StartTimer([a EXCEPT !.is_paused = FALSE]), "guidance_resumed")
    ELSE a

\* task_completed.emit(), counted up to MaxCompleted.
EmitTaskCompleted(a) ==
    [Call(a, "task_completed") EXCEPT
        !.completed = IF @ < MaxCompleted THEN @ + 1 ELSE @]

\* stop_guidance without the assignment is_paused = False.
StopGuidanceKeepingPause(a) ==
    LET stopped == [StopOptimization(a) EXCEPT !.is_guidance_active = FALSE,
                                                !.timer_active = FALSE,
                                                !.monitoring_active = FALSE,
                                                !.stale_detect = a.pending_detect]
        normal == SwitchToNormalMode(HideAllOverlays(Call(stopped, "stop_guidance")))
    IN  IF normal.raised THEN normal.app ELSE EmitTaskCompleted(normal.app)

StopGuidance(a) ==
    LET stopped == [StopOptimization(a) EXCEPT !.is_guidance_active = FALSE,
                                                !.is_paused = FALSE,
                                                !.timer_active = FALSE,
                                                !.monitoring_active = FALSE,
                                                !.stale_detect = a.pending_detect]
        normal == SwitchToNormalMode(HideAllOverlays(Call(stopped, "stop_guidance")))
    IN  IF normal.raised THEN normal.app ELSE EmitTaskCompleted(normal.app)

\* QTimer.singleShot(5000, self._perform_detection)
ScheduleDetection(a) ==
    [Call(a, "singleShot_perform_detection") EXCEPT !.pending_detect = @ + 1]

\* QTimer.singleShot(1000, lambda: self.start_guidance(...))
ScheduleStart(a) ==
    [Call(a, "singleShot_start_guidance") EXCEPT !.pending_start = @ + 1]

HandleDetectionFailure(a) == ScheduleDetection(a)

\* max_elements
MaxElements == 5

\* _handle_detections without the test for an empty list.
HandleDetectionsAlways(a, detections, ai_response, first_steps, ready_steps) ==
    LET capped == Take(detections, MaxElements)
        guidance == GetCurrentStepGuidanceWithDetections(
                        a, ai_response, first_steps, ready_steps)
        instruction == IF guidance.text = "empty" THEN "default"
                       ELSE guidance.text
    IN  ShowOverlays(guidance.app, capped, instruction)

\* _handle_detections giving the cycle up when the guidance request to
\* the chat collaborator failed.
HandleDetectionsGivingUp(a, detections, ai_response, first_steps, ready_steps) ==
    IF detections = <<>> THEN HideAllOverlays(a)
    ELSE LET capped == Take(detections, MaxElements)
             guidance == GetCurrentStepGuidanceWithDetections(
                             a, ai_response, first_steps, ready_steps)
             instruction == IF guidance.text = "empty" THEN "default"
                            ELSE guidance.text
         IN  IF guidance.text = "error" THEN HideAllOverlays(guidance.app)
             ELSE ShowOverlays(guidance.app, capped, instruction)

HandleDetections(a, detections, ai_response, first_steps, ready_steps) ==
    IF detections = <<>> THEN HideAllOverlays(a)
    ELSE LET capped == Take(detections, MaxElements)
             guidance == GetCurrentStepGuidanceWithDetections(
                             a, ai_response, first_steps, ready_steps)
             instruction == IF guidance.text = "empty" THEN "default"
                            ELSE guidance.text
         IN  ShowOverlays(guidance.app, capped, instruction)

\* _perform_detection without its test of is_guidance_active and is_paused.
PerformDetectionUnguarded(a, trigger, r, elapsed, ai_response, first_steps, ready_steps) ==
    LET armed == [a EXCEPT !.timer_interval = a.detection_interval]
        called == Call(armed, "detect_screen_elements")
        handled == IF r.signal = "detections_ready"
                   THEN HandleDetections(called, r.result, ai_response,
                                         first_steps, ready_steps)
                   ELSE HandleDetectionFailure(called)
    IN  [handled EXCEPT !.cycle =
            [trigger |-> trigger,
             cascade |-> TRUE,
             overran |-> (elapsed = "beyond"),
             signal |-> r.signal,
             captured |-> (r.invoked # <<>>),
             ids |-> { r.result[k].id : k \in 1..Len(r.result) },
             chat |-> IF \E k \in 1..Len(handled.calls) :
                             handled.calls[k] = "send_message"
                      THEN ai_response ELSE "none"]]

\* _perform_detection.  The watchdog recovery_timer is armed, the cascade
\* and the handlers of its signals run to their end inside this handler,
\* and recovery_timer.stop() follows before the handler returns to the
\* event loop: the loop delivers no timeout of the watchdog, however long
\* (elapsed) the cascade took.  r is what detect_screen_elements makes of
\* the screen, first_steps and ready_steps what generate_task_steps
\* returns where the guidance and the readiness test call it.
PerformDetection(a, trigger, r, elapsed, ai_response, first_steps, ready_steps) ==
    IF ~a.is_guidance_active \/ a.is_paused
    THEN [a EXCEPT !.cycle = [NoCycle EXCEPT !.trigger = trigger]]
    ELSE LET armed == [a EXCEPT !.timer_interval = a.detection_interval]
             called == Call(armed, "detect_screen_elements")
             handled == IF r.signal = "detections_ready"
                        THEN HandleDetections(called, r.result, ai_response,
                                              first_steps, ready_steps)
                        ELSE HandleDetectionFailure(called)
         IN  [handled EXCEPT !.cycle =
                 [trigger |-> trigger,
                  cascade |-> TRUE,
                  overran |-> (elapsed = "beyond"),
                  signal |-> r.signal,
                  captured |-> (r.invoked # <<>>),
                  ids |-> { r.result[k].id : k \in 1..Len(r.result) },
                  chat |-> IF \E k \in 1..Len(handled.calls) :
                                  handled.calls[k] = "send_message"
                           THEN ai_response ELSE "none"]]

\* _detection_timeout_recovery whose except clause stops the session and
\* schedules no restart.
DetectionTimeoutRecoveryNoRestart(a, raises) ==
    LET hide == IF raises = "hide_all_overlays"
                THEN Call(a, "hide_all_overlays") ELSE HideAllOverlays(a)
        panel == IF raises = "_show_instruction_panel"
                 THEN Call(hide, "_show_instruction_panel")
                 ELSE ShowInstructionPanel(hide, "recovery")
    IN  IF raises = "none" THEN ScheduleDetection(panel)
        ELSE StopGuidance(IF raises = "hide_all_overlays" THEN hide ELSE panel)

\* _detection_timeout_recovery with the retry scheduled first and the
\* overlays hidden after it.
DetectionTimeoutRecoveryRetryFirst(a, raises) ==
    ShowInstructionPanel(HideAllOverlays(ScheduleDetection(a)), "recovery")

\* _detection_timeout_recovery.  raises names the call of the try block
\* out of which an exception comes, "none" if none does.
DetectionTimeoutRecovery(a, raises) ==
    LET hide == IF raises = "hide_all_overlays"
                THEN Call(a, "hide_all_overlays") ELSE HideAllOverlays(a)
        panel == IF raises = "_show_instruction_panel"
                 THEN Call(hide, "_show_instruction_panel")
                 ELSE ShowInstructionPanel(hide, "recovery")
    IN  IF raises = "none" THEN ScheduleDetection(panel)
        ELSE ScheduleStart(StopGuidance(IF raises = "hide_all_overlays"
                                        THEN hide ELSE panel))

\* _handle_user_click hiding every overlay instead of the clicked one.
HandleUserClickHideAll(a, element_id) ==
    [HandleUserAction(a) EXCEPT !.active_overlays = {}]

HandleUserClick(a, element_id) == HideOverlay(HandleUserAction(a), element_id)

\* OverlayManager._handle_overlay_click: the click on a displayed overlay.
HandleOverlayClick(a, element_id) ==
    HandleUserClick(HideOverlay(a, element_id), element_id)

\* QTimer.singleShot(3000, self.resume_guidance)
ScheduleResume(a) ==
    [Call(a, "singleShot_resume_guidance") EXCEPT !.pending_resume = @ + 1]

\* _handle_user_help.  get_help_response catches what its request raises
\* and answers a fixed text, so the handler runs to its end.
HandleUserHelp(a) ==
    LET was_active == ~a.is_paused
        paused == IF was_active THEN PauseGuidance(a) ELSE a
        helped == Call(paused, "get_help_response")
    IN  IF was_active THEN ScheduleResume(helped) ELSE helped

---------------------------------------------------------------------------
(* Specifications.                                                         *)

\* ---- SpecCascade: one call of the cascade on any bounded screen ----

InitCascade ==
    /\ \/ screen = NoCapture
       \/ IsScreen(screen, MaxCandidates)
       \/ IsFaultScreen(screen, MaxCandidates - 1)
    /\ outcome = NoOutcome
    /\ reply = CallRaises
    /\ plan = NoPlan
    /\ app = InitApp

\* One call of detect_screen_elements on the current screen.
Detect ==
    /\ outcome.signal = "none"
    /\ outcome' = DetectScreenElements(screen)
    /\ UNCHANGED <<screen, reply, plan, app>>

NextCascade == Detect

SpecCascade == InitCascade /\ [][NextCascade]_vars

\* ---- SpecCrowdedCascade: one call of the cascade on a crowded screen ----

\* The k-th of a row of boxes that are apart from one another.
RowBox(k) == <<10 * k, 0, 10 * k + 2, 2>>

\* The cloud service answers n records, the j-th of them (if j > 0)
\* without a box.
CrowdedCloud(n, j) ==
    CloudOk([k \in 1..n |->
                IF k = j
                THEN [Det("cloud", 1, "Button", <<>>, 90, "none")
                         EXCEPT !.has_box = FALSE]
                ELSE Det("cloud", 1, "Button", RowBox(k), 90, "none")])

\* LocalUIDetector's sub-detectors find b buttons, t text areas and
\* p patterns.
CrowdedLocal(b, t, p) ==
    [k \in 1..b |-> Det("local", 1, "Button", RowBox(k), 60, "none")]
    \o [k \in 1..t |-> Det("local", 2, "Text Input", RowBox(b + k), 50, "none")]
    \o [k \in 1..p |-> Det("local", 3, "Clickable Element", RowBox(b + t + k),
                            40, "none")]

\* Either the cloud answers up to MaxCrowd records, or it answers none
\* and the basic local tier finds up to MaxCrowd \div 2 buttons and
\* MaxCrowd \div 3 text areas and patterns.
InitCrowdedCascade ==
    /\ \/ \E n \in 0..MaxCrowd : \E j \in 0..n :
              screen = [EmptyScreen EXCEPT !.cloud = CrowdedCloud(n, j)]
       \/ \E b \in 0..(MaxCrowd \div 2) : \E t \in 0..(MaxCrowd \div 3) :
          \E p \in 0..(MaxCrowd \div 3) :
              screen = [EmptyScreen EXCEPT !.local = CrowdedLocal(b, t, p)]
    /\ outcome = NoOutcome
    /\ reply = CallRaises
    /\ plan = NoPlan
    /\ app = InitApp

SpecCrowdedCascade == InitCrowdedCascade /\ [][NextCascade]_vars

\* ---- SpecPlanner: one call of the planner on any bounded reply ----

InitPlanner ==
    /\ reply \in Replies
    /\ plan = NoPlan
    /\ screen = NoCapture
    /\ outcome = NoOutcome
    /\ app = InitApp

\* One call of generate_task_steps.
Generate ==
    /\ plan = NoPlan
    /\ plan' = GenerateTaskSteps(reply)
    /\ UNCHANGED <<reply, screen, outcome, app>>

NextPlanner == Generate

SpecPlanner == InitPlanner /\ [][NextPlanner]_vars

\* ---- Spec: the orchestrator under its commands, timers and threads ----

Init ==
    /\ app = InitApp
    /\ screen = NoCapture
    /\ outcome = NoOutcome
    /\ reply = CallRaises
    /\ plan = NoPlan

Rest == UNCHANGED <<screen, outcome, reply, plan>>

\* ChatWidget._start_chat
StartSession ==
    /\ app' = [Begin(app) EXCEPT !.history_started = TRUE]
    /\ Rest

\* ChatWidget._send_to_ai
SendUserMessage ==
    /\ \E ai_response \in AiResponses :
       \E ready_steps \in (IF ai_response = "ready" /\ ~app.task_ready_emitted
                          THEN PlannedSteps ELSE {NoSteps}) :
           app' = SendMessage(Begin(app), ai_response, ready_steps).app
    /\ Rest

\* start_guidance starts a sampling thread unless optimization is active.
CanStart == app.optimization_active \/ app.samplers < MaxSamplers

\* MainWindow._start_guidance
StartGuidanceCommand ==
    /\ CanStart
    /\ app' = StartGuidance(Begin(app), "User task")
    /\ Rest

\* MainWindow._force_start_guidance
ForceStartGuidance ==
    /\ CanStart
    /\ app' = StartGuidance([Begin(app) EXCEPT !.chat_task = "User task"],
                            "User task")
    /\ Rest

\* FloatingChat._pause_guidance
PauseGuidanceCommand ==
    /\ app' = PauseGuidance(Begin(app))
    /\ Rest

\* AppManager.resume_guidance, called from outside
ResumeGuidanceCommand ==
    /\ app' = ResumeGuidance(Begin(app))
    /\ Rest

\* FloatingChat._stop_guidance
StopGuidanceCommand ==
    /\ app' = StopGuidance(Begin(app))
    /\ Rest

\* One run of _perform_detection from state a on one of the screens, with
\* what the clock and the chat collaborator make of it.
Cycle(a, trigger, screens) ==
    \E s \in screens : \E elapsed \in {"within", "beyond"} :
    LET r == Detected[s]
        found == /\ a.is_guidance_active /\ ~a.is_paused
                 /\ r.signal = "detections_ready" /\ r.result # <<>>
        firsts == IF found /\ StepsLen(a.task_steps) = 0 /\ a.chat_task # ""
                       THEN PlannedSteps ELSE {NoSteps}
    IN  \E ai_response \in (IF found THEN AiResponses ELSE {"plain"}) :
        \E first_steps \in firsts :
        \E ready_steps \in (IF found /\ ai_response = "ready" /\ ~a.task_ready_emitted
                           THEN PlannedSteps ELSE {NoSteps}) :
        LET after == PerformDetection(a, trigger, r, elapsed, ai_response,
                                      first_steps, ready_steps)
        IN  /\ after.pending_detect <= MaxPending
            /\ app' = after

\* A pending QTimer.singleShot(5000, self._perform_detection) comes due:
\* one scheduled since the latest stop_guidance, or one from before it.
Retry(screens) ==
    \E stale \in BOOLEAN :
        /\ IF stale THEN app.stale_detect > 0
           ELSE app.pending_detect > app.stale_detect
        /\ Cycle([Begin(app) EXCEPT !.pending_detect = @ - 1,
                                    !.stale_detect = IF stale THEN @ - 1 ELSE @],
                 IF stale THEN "stale_retry" ELSE "retry", screens)

\* The timeout of detection_timer.
DetectionTimerTick ==
    /\ app.timer_active
    /\ Cycle(Begin(app), "tick", CycleScreens)
    /\ Rest

DetectionRetry ==
    /\ Retry(CycleScreens)
    /\ Rest

\* The user clicks a displayed overlay.
OverlayClick ==
    /\ \E element_id \in app.active_overlays :
           app' = HandleOverlayClick(Begin(app), element_id)
    /\ Rest

\* A sampling thread runs one pass of its loop, under a light load.
SamplerPass ==
    /\ app.samplers > 0
    /\ app.optimization_active
    /\ app' = MonitorResources(app, [has_cpu |-> TRUE, system_cpu |-> 0])
    /\ Rest

\* A sampling thread reads optimization_active as False and ends.
SamplerExit ==
    /\ app.samplers > 0
    /\ ~app.optimization_active
    /\ app' = [app EXCEPT !.samplers = @ - 1]
    /\ Rest

Next ==
    \/ StartSession
    \/ SendUserMessage
    \/ StartGuidanceCommand
    \/ ForceStartGuidance
    \/ PauseGuidanceCommand
    \/ ResumeGuidanceCommand
    \/ StopGuidanceCommand
    \/ DetectionTimerTick
    \/ DetectionRetry
    \/ OverlayClick
    \/ SamplerPass
    \/ SamplerExit

Spec == Init /\ [][Next]_vars

\* ---- SpecSampler: the session and its timer under every load ----

\* A sampling thread runs one pass of its loop, under any load.
SamplerUpdate ==
    /\ app.samplers > 0
    /\ app.optimization_active
    /\ \E resource_usage \in ResourceUsages :
           app' = MonitorResources(app, resource_usage)
    /\ Rest

\* The timeout of detection_timer, on a screen with nothing to detect.
QuietTimerTick ==
    /\ app.timer_active
    /\ Cycle(Begin(app), "tick", {EmptyScreen})
    /\ Rest

NextSampler ==
    \/ StartGuidanceCommand
    \/ PauseGuidanceCommand
    \/ ResumeGuidanceCommand
    \/ StopGuidanceCommand
    \/ QuietTimerTick
    \/ SamplerUpdate
    \/ SamplerExit

SpecSampler == Init /\ [][NextSampler]_vars

\* ---- SpecRecovery: the session with the watchdog's timeout delivered ----

RecoveryFaults ==
    {"none", "hide_all_overlays", "_show_instruction_panel", "singleShot"}

\* The timeout of a cycle's recovery_timer.
WatchdogTimeout ==
    /\ app.is_guidance_active
    /\ ~app.is_paused
    /\ \E raises \in RecoveryFaults :
       LET after == DetectionTimeoutRecovery(
                        Call(Begin(app), "recovery_timer_timeout"), raises)
       IN  /\ after.pending_detect <= MaxPending
           /\ after.pending_start <= MaxPending
           /\ app' = after
    /\ Rest

\* A pending QTimer.singleShot(1000, lambda: self.start_guidance(...))
\* comes due.
DeferredStart ==
    /\ app.pending_start > 0
    /\ CanStart
    /\ app' = StartGuidance([Begin(app) EXCEPT !.pending_start = @ - 1],
                            "Restarted after recovery")
    /\ Rest

\* The timeout of detection_timer, on a screen with one element or on a
\* failed capture.
PlainTimerTick ==
    /\ app.timer_active
    /\ Cycle(Begin(app), "tick", {NoCapture, OneScreen})
    /\ Rest

PlainRetry ==
    /\ Retry({NoCapture, OneScreen})
    /\ Rest

NextRecovery ==
    \/ StartGuidanceCommand
    \/ PauseGuidanceCommand
    \/ ResumeGuidanceCommand
    \/ StopGuidanceCommand
    \/ PlainTimerTick
    \/ PlainRetry
    \/ WatchdogTimeout
    \/ DeferredStart
    \/ SamplerExit

SpecRecovery == Init /\ [][NextRecovery]_vars

\* The event loop delivers a single-shot timer that is due, and a sampling
\* thread that reads optimization_active as False leaves its loop.
SpecRecoveryFair ==
    /\ SpecRecovery
    /\ WF_vars(DeferredStart)
    /\ WF_vars(SamplerExit)

\* ---- SpecCrowded: a session on screens with more elements than are shown ----

\* The timeout of detection_timer, on a screen with one element or many.
CrowdedTimerTick ==
    /\ app.timer_active
    /\ Cycle(Begin(app), "tick", {OneScreen} \cup CrowdedScreens)
    /\ Rest

NextCrowded ==
    \/ StartGuidanceCommand
    \/ StopGuidanceCommand
    \/ CrowdedTimerTick
    \/ OverlayClick
    \/ SamplerExit

SpecCrowded == Init /\ [][NextCrowded]_vars

\* ---- SpecPause: a session with a plan, paused and resumed under every load ----

\* The timeout of detection_timer, on a screen with one element or none.
GuidedTimerTick ==
    /\ app.timer_active
    /\ Cycle(Begin(app), "tick", {EmptyScreen, OneScreen})
    /\ Rest

NextPause ==
    \/ StartGuidanceCommand
    \/ ForceStartGuidance
    \/ PauseGuidanceCommand
    \/ ResumeGuidanceCommand
    \/ StopGuidanceCommand
    \/ GuidedTimerTick
    \/ OverlayClick
    \/ SamplerUpdate
    \/ SamplerExit

SpecPause == Init /\ [][NextPause]_vars

\* ---- SpecHelp: the session with the chat's help signal delivered ----

\* user_needs_help reaches the slot _setup_connections connects it to.
UserNeedsHelp ==
    /\ LET after == HandleUserHelp(Begin(app))
       IN  /\ after.pending_resume <= MaxPending
           /\ app' = after
    /\ Rest

\* A pending QTimer.singleShot(3000, self.resume_guidance) comes due.
DeferredResume ==
    /\ app.pending_resume > 0
    /\ app' = ResumeGuidance([Begin(app) EXCEPT !.pending_resume = @ - 1])
    /\ Rest

NextHelp ==
    \/ StartGuidanceCommand
    \/ PauseGuidanceCommand
    \/ ResumeGuidanceCommand
    \/ StopGuidanceCommand
    \/ PlainTimerTick
    \/ PlainRetry
    \/ UserNeedsHelp
    \/ DeferredResume
    \/ SamplerExit

SpecHelp == Init /\ [][NextHelp]_vars

---------------------------------------------------------------------------
(* Properties.                                                             *)


---------------------------------------------------------------------------
(* Properties of the cascade.                                              *)

\* What tier t alone returns on screen s.
TierOutput(s, t) ==
    CASE t = "cloud" -> DetectWithCloud(s.cloud)
      [] t = "ui" -> ListOf(DetectUiElements(s.ui, s.ui_raise))
      [] t = "yolo" -> ListOf(DetectIcons(s.yolo))
      [] OTHER -> ListOf(DetectLocally(s.local))

\* The place in Tiers of the first tier whose output is not empty, 0 if
\* every tier's output is empty.
FirstNonEmptyTier(s) ==
    IF \A k \in 1..Len(Tiers) : Falsy(TierOutput(s, Tiers[k])) THEN 0
    ELSE CHOOSE k \in 1..Len(Tiers) :
             /\ ~Falsy(TierOutput(s, Tiers[k]))
             /\ \A j \in 1..(k - 1) : Falsy(TierOutput(s, Tiers[j]))

\* Record d of the returned list is record e of a tier's output, with the
\* id and the action _process_detections adds.
SameDetection(d, e) ==
    d = [e EXCEPT !.has_id = TRUE, !.id = d.id, !.has_action = TRUE]

\* C1: the tiers are tried in the order cloud, advanced UI heuristic, YOLO,
\* basic local; the tiers invoked are exactly those up to the first one
\* whose output is not empty, and every record of the returned list is a
\* record of that tier's output: no later tier is invoked or contributes.
C1_TierPrecedence ==
    (outcome.signal # "none" /\ screen.capture) =>
        LET k == FirstNonEmptyTier(screen)
        IN  /\ outcome.invoked = IF k = 0 THEN Tiers ELSE SubSeq(Tiers, 1, k)
            /\ \A i \in 1..Len(outcome.result) :
                   /\ k # 0
                   /\ outcome.result[i].tier = Tiers[k]
                   /\ \E j \in 1..Len(TierOutput(screen, Tiers[k]).items) :
                          SameDetection(outcome.result[i],
                                        TierOutput(screen, Tiers[k]).items[j])

\* A cycle in which the advanced UI tier is the first with a result while
\* the YOLO and the local tier would have had one too.
C1_Witness ==
    /\ outcome.signal = "detections_ready"
    /\ FirstNonEmptyTier(screen) = 2
    /\ outcome.result # <<>>
    /\ ~Falsy(TierOutput(screen, "yolo"))
    /\ ~Falsy(TierOutput(screen, "local"))

\* The dedup threshold of the spec for a tier, as <<num, den>>: 0.5, and
\* 0.3 for the heuristic-only tiers.
DedupThreshold(tier) ==
    IF tier \in {"ui", "local"} THEN <<3, 10>> ELSE <<1, 2>>

\* C2: in every list the cascade returns, no two records have an IoU
\* greater than or equal to the dedup threshold in force for their tier.
C2_NoOverlapAtThreshold ==
    outcome.signal = "detections_ready" =>
        \A i \in 1..Len(outcome.result) : \A j \in 1..Len(outcome.result) :
            i < j =>
                ~RatioGE(CalculateIou(outcome.result[i].box, outcome.result[j].box),
                         DedupThreshold(outcome.result[i].tier)[1],
                         DedupThreshold(outcome.result[i].tier)[2])


\* C9: for every text the generation collaborator returns, parseable or
\* not, generate_task_steps returns a list that holds at least one step.
C9_AtLeastOneStep ==
    (plan # NoPlan /\ reply.call = "returns" /\ reply.content = "text")
        => /\ plan.kind = "list"
           /\ Len(plan.steps) >= 1
           /\ \A k \in 1..Len(plan.steps) : plan.steps[k].kind = "step"

\* C10: generate_task_steps never returns an empty or absent list; when
\* the call to the collaborator fails it returns the one default step.
C10_NeverEmpty ==
    /\ plan # NoPlan => (plan.kind = "list" /\ Len(plan.steps) >= 1)
    /\ (plan # NoPlan /\ reply.call = "raises") => plan.steps = <<DefaultStep>>

\* C3: a detection cycle started by a delayed retry callback runs the
\* cascade only if the callback was scheduled since the latest
\* stop_guidance; a callback left from a session that was stopped never
\* does so in a later session.
C3_NoStaleCallbackCycle ==
    app.cycle.cascade => app.cycle.trigger # "stale_retry"

\* C4: when the cascade of a cycle took longer than the 10 s of the
\* watchdog, the timeout recovery has run for the cycle: no overlay is
\* displayed, the recovery notice is shown and a retry is pending.
C4_TimeoutRecoveryRuns ==
    (app.cycle.cascade /\ app.cycle.overran)
        => /\ app.active_overlays = {}
           /\ app.instruction = "recovery"
           /\ app.pending_detect > 0

\* C5: task_completed is emitted exactly once per session: not at all
\* while the session started by the latest start_guidance is active, and
\* once, however many stops it gets, after it has been stopped.
C5_CompletedExactlyOnce ==
    app.started => IF app.is_guidance_active THEN app.completed = 0
                   ELSE app.completed = 1

\* C6: whenever task_steps is non-empty, 0 <= current_step_index <=
\* len(task_steps) - 1; and a click on an overlay while the index is the
\* last one leaves the index as it is.
C6_StepIndexInRange ==
    /\ [](StepsLen(app.task_steps) > 0
            => /\ 0 <= app.current_step_index
               /\ app.current_step_index <= StepsLen(app.task_steps) - 1)
    /\ [][\A element_id \in app.active_overlays :
            ( /\ app' = HandleOverlayClick(Begin(app), element_id)
              /\ StepsLen(app.task_steps) > 0
              /\ app.current_step_index = StepsLen(app.task_steps) - 1 )
            => app'.current_step_index = app.current_step_index]_vars

\* A click came at the last step of a plan of several steps.
C6_Witness ==
    /\ app.calls = <<"dynamic_guidance">>
    /\ app.task_steps.kind = "list"
    /\ Len(app.task_steps.steps) >= 2
    /\ app.current_step_index = Len(app.task_steps.steps) - 1

Intervals == {4000, 6000, 8000}

\* C7: in every state the optimizer's detection_interval is one of 4000,
\* 6000 and 8000, and so is the interval the orchestrator has read from it
\* into the detection timer, whatever the sampling threads have written
\* in between.
C7_IntervalInSet ==
    /\ app.detection_interval \in Intervals
    /\ app.started => app.timer_interval \in Intervals

\* The timer runs on a reading the sampler has overwritten since.
C7_Witness ==
    /\ app.timer_active
    /\ app.timer_interval = 6000
    /\ app.detection_interval = 8000

IsScheduling(call) ==
    call \in {"singleShot_perform_detection", "singleShot_start_guidance"}

RecoveryRan == app.calls # <<>> /\ app.calls[1] = "recovery_timer_timeout"

\* C8: when the timeout-recovery handler has run, every scheduling of a
\* retry or of a restart in it comes after a call of hide_all_overlays.
C8_HideBeforeRetry ==
    RecoveryRan =>
        \A k \in 1..Len(app.calls) :
            IsScheduling(app.calls[k])
                => \E j \in 1..(k - 1) : app.calls[j] = "hide_all_overlays"

\* The handler went through its restart fallback.
C8_Witness ==
    /\ RecoveryRan
    /\ \E k \in 1..Len(app.calls) : app.calls[k] = "singleShot_start_guidance"
    /\ \E k \in 1..Len(app.calls) : app.calls[k] = "stop_guidance"

StopReturned == app.calls # <<>> /\ app.calls[1] = "stop_guidance"

\* C11: when stop_guidance has returned, the detection timer is stopped
\* and no delayed callback (5 s retry or backoff, deferred restart) is
\* pending.
C11_StopCancelsAll ==
    StopReturned => /\ ~app.timer_active
                    /\ app.pending_detect = 0
                    /\ app.pending_start = 0

\* C12: a step in which the cascade runs starts in a state where the
\* session is active and not paused; in every state left by a cycle that
\* ran the cascade the session is active and not paused.
C12_CascadeOnlyWhileActive ==
    /\ [](app.cycle.cascade => (app.is_guidance_active /\ ~app.is_paused))
    /\ [][(app'.cycle.cascade /\ app' # app)
            => (app.is_guidance_active /\ ~app.is_paused)]_vars

\* A retry came due while the session was paused, or after it was
\* stopped, and left the cascade alone.
C12_Witness ==
    /\ app.cycle.trigger \in {"retry", "stale_retry"}
    /\ ~app.cycle.cascade
    /\ app.started
    /\ app.is_paused \/ ~app.is_guidance_active

\* C13: while optimization is active, at most one sampling thread is
\* alive to run the loop of _monitor_resources and write the interval.
C13_OneSampler == app.optimization_active => app.samplers <= 1

\* C14: a detection cycle that runs the cascade, its guidance request
\* included, leaves task_steps and current_step_index as they were.
C14_CycleKeepsTask ==
    [][app'.cycle.cascade
          => /\ app'.task_steps = app.task_steps
             /\ app'.current_step_index = app.current_step_index]_vars

\* The Task: the task description, the step list and the index into it.
Task(a) == <<a.current_task, a.chat_task, a.task_steps, a.current_step_index>>

\* C15: pause_guidance and resume_guidance leave the Task (description,
\* step list, current_step_index) unchanged; while the session is paused the
\* detection timer is stopped and no overlay is displayed; resume_guidance
\* starts the timer at the interval the optimizer holds at that moment.
C15_PauseResumeKeepTask ==
    /\ []((app.is_guidance_active /\ app.is_paused)
            => (~app.timer_active /\ app.active_overlays = {}))
    /\ [][(app.is_guidance_active /\ ~app.is_paused
              /\ app' = PauseGuidance(Begin(app)))
            => (Task(app') = Task(app) /\ app'.is_paused)]_vars
    /\ [][(app.is_guidance_active /\ app.is_paused
              /\ app' = ResumeGuidance(Begin(app)))
            => /\ Task(app') = Task(app)
               /\ ~app'.is_paused
               /\ app'.timer_active
               /\ app'.timer_interval = app.detection_interval]_vars

\* Resumed after a click advanced the plan and after the optimizer moved
\* the interval while the session was paused.
C15_Witness ==
    /\ app.calls = <<"guidance_resumed">>
    /\ app.current_step_index = 1
    /\ app.timer_interval = 8000

\* C16: a click on a displayed overlay removes exactly that overlay and
\* leaves the others; when the plan has steps and current_step_index is
\* not the last, the index moves up by one and no dynamic guidance is
\* requested; at the last step, or with no steps, the index stays and
\* dynamic guidance is requested.
C16_ClickAdvances ==
    [][\A element_id \in app.active_overlays :
          app' = HandleOverlayClick(Begin(app), element_id)
          => /\ app'.active_overlays = app.active_overlays \ {element_id}
             /\ IF StepsLen(app.task_steps) > 0
                    /\ app.current_step_index # StepsLen(app.task_steps) - 1
                THEN /\ app'.current_step_index = app.current_step_index + 1
                     /\ app'.calls = <<>>
                ELSE /\ app'.current_step_index = app.current_step_index
                     /\ app'.calls = <<"dynamic_guidance">>]_vars

\* A click on one of two overlays has moved the index to the second step
\* and the other overlay is still displayed.
C16_Witness ==
    /\ app.is_guidance_active
    /\ app.calls = <<>>
    /\ app.cycle = NoCycle
    /\ app.current_step_index = 1
    /\ Cardinality(app.active_overlays) = 1

EmptyCycle(a) ==
    /\ a.cycle.cascade
    /\ a.cycle.signal = "detections_ready"
    /\ a.cycle.ids = {}

\* C18: a cycle whose cascade result is empty hides all overlays (the
\* instruction panel with them), sends no guidance request to the chat
\* collaborator and leaves current_step_index and the step list as they
\* were.
C18_EmptyCycleHides ==
    /\ [](EmptyCycle(app)
            => /\ app.active_overlays = {}
               /\ app.instruction = "none"
               /\ app.calls = <<"detect_screen_elements", "hide_all_overlays">>)
    /\ [][EmptyCycle(app')
            => /\ app'.current_step_index = app.current_step_index
               /\ app'.task_steps = app.task_steps]_vars

\* An empty cycle has run in a session whose plan a click had advanced.
C18_Witness ==
    /\ EmptyCycle(app)
    /\ app.current_step_index = 1
    /\ app.is_guidance_active

\* C19: a cycle whose screen capture failed ends as a cycle with an empty
\* cascade result does: all overlays hidden and no retry scheduled.
C19_CaptureFailureAsEmpty ==
    (app.cycle.cascade /\ ~app.cycle.captured)
    => /\ app.active_overlays = {}
       /\ \A k \in 1..Len(app.calls) :
              app.calls[k] # "singleShot_perform_detection"

\* C20: when the screen was captured and every tier's output is empty
\* (an empty list, or the cloud answering nothing), the cascade has tried
\* all four tiers and emits detections_ready with the empty list, not
\* detection_failed; the cycle of an active session that receives it
\* schedules no retry.
C20_ExhaustionIsEmptyResult ==
    (outcome.signal # "none" /\ screen.capture /\ FirstNonEmptyTier(screen) = 0)
    => /\ outcome = [signal |-> "detections_ready", result |-> <<>>,
                     invoked |-> Tiers]
       /\ LET cycled == PerformDetection(StartGuidance(InitApp, "User task"),
                                         "tick", outcome, "within", "plain",
                                         NoSteps, NoSteps)
          IN  /\ cycled.pending_detect = 0
              /\ cycled.calls = <<"task_started", "detect_screen_elements",
                                  "hide_all_overlays">>

\* The cascade has run on a screen where the cloud answered null for its
\* detections and no local tier found anything.
C20_Witness ==
    /\ outcome.signal = "detections_ready"
    /\ outcome.invoked = Tiers
    /\ FirstNonEmptyTier(screen) = 0
    /\ screen.cloud.body = "null"

\* A tier failed internally on screen s: the cloud call timed out, could
\* not connect or got a non-200 answer, or a sub-detector of the advanced
\* UI detector raised.
TierFailed(s) ==
    \/ s.cloud.status \in {"timeout", "connection_error", "http_error"}
    \/ s.ui_raise # 0

\* Screen s with the failed tier returning the empty list instead.
FailedTierEmpty(s) ==
    [s EXCEPT !.cloud = IF s.cloud.status = "ok" THEN @ ELSE CloudOk(<<>>),
              !.ui = IF s.ui_raise # 0 THEN <<>> ELSE @,
              !.ui_raise = 0]

\* C21: on a screen where a tier failed internally, the cascade ends as it
\* ends on the same screen with that tier returning the empty list: it
\* goes on to the next tier and returns that run's result.
C21_FailureAsEmpty ==
    (outcome.signal # "none" /\ screen.capture /\ TierFailed(screen))
    => outcome = DetectScreenElements(FailedTierEmpty(screen))

\* C22: every record of a list the cascade returns has a confidence of at
\* least detection_confidence.
C22_ConfidenceFloor ==
    outcome.signal = "detections_ready"
    => \A i \in 1..Len(outcome.result) :
           outcome.result[i].conf >= DetectionConfidence

\* C23: every record of a list the cascade returns has a label, an action,
\* an id and a box of four numbers with x1 < x2 and y1 < y2.
C23_SchemaAtBoundary ==
    outcome.signal = "detections_ready"
    => \A i \in 1..Len(outcome.result) :
           LET d == outcome.result[i]
           IN  /\ d.has_label /\ d.has_action /\ d.has_id
               /\ d.has_box /\ d.box_numeric
               /\ Len(d.box) = 4
               /\ d.box[1] < d.box[3]
               /\ d.box[2] < d.box[4]

\* The weight of a candidate's kind, the kind being the sub-detector that
\* found it: button > text_field > window_control > link > icon.
PriorityWeight(detection) ==
    CASE detection.sub = 1 -> 5
      [] detection.sub = 2 -> 4
      [] detection.sub = 5 -> 3
      [] detection.sub = 4 -> 2
      [] OTHER -> 1

WeightedScore(detection) == PriorityWeight(detection) * detection.conf

\* C24: what the advanced UI tier returns is in descending order of
\* priority_weight(kind) x confidence, and of two overlapping candidates
\* with different scores the one with the higher score is the one kept.
C24_RankedByWeightedScore ==
    (outcome.signal # "none" /\ screen.capture /\ screen.ui_raise = 0)
    => LET kept == DetectUiElements(screen.ui, 0)
       IN  /\ \A i \in 1..Len(kept) : \A j \in 1..Len(kept) :
                  i < j => WeightedScore(kept[i]) >= WeightedScore(kept[j])
           /\ (/\ Len(screen.ui) = 2
               /\ OverlapsSignificantly(screen.ui[1], <<screen.ui[2]>>)
               /\ WeightedScore(screen.ui[1]) # WeightedScore(screen.ui[2]))
              => kept = <<IF WeightedScore(screen.ui[1]) > WeightedScore(screen.ui[2])
                          THEN screen.ui[1] ELSE screen.ui[2]>>

RecoveryFailed ==
    /\ RecoveryRan
    /\ \A k \in 1..Len(app.calls) : app.calls[k] # "singleShot_perform_detection"

C27_AtMostFiveOverlays == Cardinality(app.active_overlays) <= MaxElements

\* A cycle whose cascade returned ten records has five overlays on display.
C27_Witness ==
    /\ app.cycle.cascade
    /\ Cardinality(app.cycle.ids) = MaxDetections
    /\ Cardinality(app.active_overlays) = MaxElements

\* C28: when the plan text could not be parsed as JSON and the plan was
\* made by _parse_steps_from_text, every member of the plan is a step made
\* there and the k-th carries step_number k.
C28_FallbackNumbering ==
    (/\ plan # NoPlan
     /\ reply.call = "returns" /\ reply.content = "text"
     /\ plan.steps # <<>>
     /\ plan.steps[1].src # "json")
    => /\ plan.kind = "list"
       /\ \A k \in 1..Len(plan.steps) :
              /\ plan.steps[k].kind = "step"
              /\ plan.steps[k].src \in {"text", "default"}
              /\ plan.steps[k].step_number = k

\* A text that opens a JSON array it never closes, with two lines that
\* hold an action verb, has given a plan of two steps.
C28_Witness ==
    /\ reply.call = "returns" /\ reply.content = "text"
    /\ reply.text # <<>> /\ reply.text[1] = "["
    /\ Len(plan.steps) = 2
    /\ plan.steps[2].src = "text"

\* C29: a list the cascade returns has at most max_detections members.
C29_AtMostMaxDetections ==
    outcome.signal = "detections_ready" => Len(outcome.result) <= MaxDetections

\* The basic local tier returned eleven records and the cascade ten.
C29_Witness ==
    /\ outcome.signal = "detections_ready"
    /\ Len(DetectLocally(screen.local)) > MaxDetections
    /\ Len(outcome.result) = MaxDetections

\* C30: no two records of a list the cascade returns have the same id.
C30_UniqueIds ==
    outcome.signal = "detections_ready"
    => \A i \in 1..Len(outcome.result) : \A j \in 1..Len(outcome.result) :
           i # j => outcome.result[i].id # outcome.result[j].id

\* The cascade dropped a record without a box from between two records it
\* kept.
C30_Witness ==
    /\ outcome.signal = "detections_ready"
    /\ \E k \in 1..Len(screen.cloud.detections) :
           ~screen.cloud.detections[k].has_box
    /\ \E i \in 1..(Len(outcome.result) - 1) :
           outcome.result[i + 1].id = outcome.result[i].id + 2

---------------------------------------------------------------------------
(* Properties of the interval the sampler computes.                        *)

\* The interval the thresholds 70 and 50 give a load.
IntervalOfLoad(load) ==
    IF load > 70 THEN 8000 ELSE IF load > 50 THEN 6000 ELSE 4000

\* One pass of a sampling thread that read the CPU load as load.
SamplerRead(load) ==
    /\ app.samplers > 0
    /\ app.optimization_active
    /\ app' = MonitorResources(app, [has_cpu |-> TRUE, system_cpu |-> load])

\* C31: a pass of the sampler that read a load leaves detection_interval
\* at 8000 for a load above 70, at 6000 for a load above 50 and not above
\* 70, at 4000 otherwise; and no higher load in 0..100 would have given a
\* shorter interval.
C31_IntervalFromLoad ==
    [][\A load \in Loads :
          SamplerRead(load)
          => /\ app'.detection_interval = IntervalOfLoad(load)
             /\ \A higher \in load..MaxLoad :
                    AdjustDetectionInterval(higher) >= app'.detection_interval
             /\ \A lower \in 0..load :
                    AdjustDetectionInterval(lower) <= app'.detection_interval]_vars

\* The sampler has moved the interval up to 8000 while guidance is paused.
C31_Witness ==
    /\ app.optimization_active
    /\ app.samplers > 0
    /\ app.is_paused
    /\ app.detection_interval = 8000

---------------------------------------------------------------------------
(* Properties of the session's states under delayed callbacks.             *)

Paused(a) == a.is_guidance_active /\ a.is_paused

\* The step is the run of a timer's callback: a delayed single shot came
\* due, or the detection timer ticked.
ByCallback ==
    \/ app'.pending_detect < app.pending_detect
    \/ app'.pending_start < app.pending_start
    \/ app'.pending_resume < app.pending_resume
    \/ app'.cycle.trigger # "none"

---------------------------------------------------------------------------
(* Properties of the cascade's stopping rule.                              *)

\* The record has a label and a box of four numbers with x1 < x2 and
\* y1 < y2.
SchemaValid(d) ==
    /\ d.has_label /\ d.has_box /\ d.box_numeric
    /\ Len(d.box) = 4
    /\ d.box[1] < d.box[3]
    /\ d.box[2] < d.box[4]

\* Some tier, run alone on screen s, returns a schema-valid record.
CanProduceValid(s) ==
    \E k \in 1..Len(Tiers) :
        LET output == TierOutput(s, Tiers[k])
        IN  \E j \in 1..Len(output.items) : SchemaValid(output.items[j])

\* C33: on a captured screen where some tier can produce a schema-valid
\* record, the cascade returns a list that is not empty.
C33_NonEmptyWhenSomeTierCan ==
    (outcome.signal # "none" /\ screen.capture /\ CanProduceValid(screen))
    => (outcome.signal = "detections_ready" /\ outcome.result # <<>>)

---------------------------------------------------------------------------
(* Properties of the fallback text parser.                                 *)

\* generate_task_steps hands plan text t to _parse_steps_from_text: the
\* extracted block or, with no usable block, the whole text fails to parse.
TakesFallback(t) ==
    LET m == ExtractJson(t)
        extracted == IF m = <<0, 0>> THEN Bad
                     ELSE JsonLoads(SubText(t, m[1], m[2]), TRUE)
    IN  IF m # <<0, 0>> /\ ~extracted.ok THEN TRUE
        ELSE IF m # <<0, 0>> /\ extracted.kind = "list" /\ Len(extracted.elems) > 0
        THEN FALSE
        ELSE ~JsonLoads(t, FALSE).ok

\* No line of text t holds an action verb or a step marker.
NoIndicator(t) == \A k \in 1..Len(t) : ~HasIndicator(t[k])

\* C34: when the plan text went to the fallback parser and none of its
\* lines holds an action verb or step marker, the plan is exactly the one
\* default step, numbered 1.
C34_DefaultStepWhenNoLineQualifies ==
    (/\ plan # NoPlan
     /\ reply.call = "returns" /\ reply.content = "text"
     /\ TakesFallback(reply.text)
     /\ NoIndicator(reply.text))
    => /\ plan = Returned("list", <<DefaultStep>>)
       /\ Len(plan.steps) = 1
       /\ plan.steps[1].step_number = 1

\* A text of two lines of plain words, neither with a verb or marker, has
\* given the default step.
C34_Witness ==
    /\ plan = Returned("list", <<DefaultStep>>)
    /\ reply.call = "returns" /\ reply.content = "text"
    /\ NoIndicator(reply.text)
    /\ \E k \in 2..(Len(reply.text) - 1) :
           /\ reply.text[k] = "nl"
           /\ reply.text[k - 1] \notin {"nl", "[", "]", ","}
           /\ reply.text[k + 1] \notin {"nl", "[", "]", ","}

C36_AtMostOneRetryPending == app.pending_detect <= 1

\* The session is Active: guidance is on and not paused.
Active(a) == a.is_guidance_active /\ ~a.is_paused

\* C37: while the session is not Active (never started, paused or
\* stopped) no detection overlay is on display.
C37_NoOverlayUnlessActive == ~Active(app) => app.active_overlays = {}

\* The session was paused after a click had advanced the plan, and a
\* retry that came due during the pause has left the screen bare.
C37_Witness ==
    /\ Paused(app)
    /\ app.current_step_index = 1
    /\ app.cycle.trigger = "retry"
    /\ ~app.cycle.cascade
    /\ app.active_overlays = {}

\* C38: is_paused implies is_guidance_active.
C38_PausedImpliesActive == app.is_paused => app.is_guidance_active

\* The session is paused, with a retry of a failed cycle still pending.
C38_Witness ==
    /\ app.is_paused
    /\ app.is_guidance_active
    /\ app.pending_detect > 0
    /\ app.calls = <<"hide_all_overlays", "guidance_paused">>

=========================================================================
